---- MODULE Spec2Model ----
(***************************************************************************)
(* Model of the OSC bridges of logicpro-midi-controller:                   *)
(*   osc_transport.py  - the keystroke backend: a sequential UDP loop, its *)
(*                       own OSC parser, AppleScript keystrokes;           *)
(*   osc_to_midi.py    - the MIDI backend: python-osc's threading server   *)
(*                       and dispatcher, three handlers, one mido output.  *)
(* Strings are sequences of code points, datagrams sequences of bytes      *)
(* (0..255); offsets are 0-based as in the source, so data[i] of the       *)
(* source is data[i+1] here.                                               *)
(***************************************************************************)
EXTENDS Integers, Sequences, FiniteSets, TLC

(***************************************************************************)
(* Bounds of the model.                                                    *)
(***************************************************************************)
\* datagrams received in one run (each backend)
MaxDatagrams == 2
\* characters after the ',' of a generated type tag
MaxTagLen == 2

(***************************************************************************)
(* Characters used by the source.                                          *)
(***************************************************************************)
SLASH == 47
COMMA == 44
CH_i == 105
CH_f == 102

Min(S) == CHOOSE x \in S : \A y \in S : x <= y

\* data[a:b] of Python for 0 <= a, on a sequence (0-based, end exclusive)
Slice(data, a, b) ==
    LET e == IF b > Len(data) THEN Len(data) ELSE b
    IN  IF a >= e THEN <<>> ELSE SubSeq(data, a + 1, e)

\* str.startswith
startswith(s, p) ==
    /\ Len(s) >= Len(p)
    /\ SubSeq(s, 1, Len(p)) = p

\* str.split('/')[-1]: what follows the last '/', the whole string if none
last_segment(s) ==
    LET S == {i \in 1..Len(s) : s[i] = SLASH}
    IN  IF S = {} THEN s
        ELSE LET m == CHOOSE i \in S : \A j \in S : j <= i
             IN  SubSeq(s, m + 1, Len(s))

(***************************************************************************)
(* bytes.decode('utf-8') (strict): the code points, or an error            *)
(* (UnicodeDecodeError) on a stray continuation byte, a truncated,         *)
(* overlong or surrogate sequence, or a lead byte above 0xF4.              *)
(***************************************************************************)
IsCont(b) == b >= 128 /\ b <= 191

RECURSIVE utf8_decode_from(_, _, _)
utf8_decode_from(bs, i, acc) ==
    IF i > Len(bs) THEN [ok |-> TRUE, s |-> acc]
    ELSE
      LET b == bs[i]
          bad == [ok |-> FALSE, s |-> <<>>]
      IN
      IF b < 128 THEN utf8_decode_from(bs, i + 1, Append(acc, b))
      ELSE IF b >= 194 /\ b <= 223 THEN
        IF i + 1 <= Len(bs) /\ IsCont(bs[i + 1])
        THEN utf8_decode_from(bs, i + 2,
                 Append(acc, (b - 192) * 64 + (bs[i + 1] - 128)))
        ELSE bad
      ELSE IF b >= 224 /\ b <= 239 THEN
        IF i + 2 <= Len(bs) /\ IsCont(bs[i + 1]) /\ IsCont(bs[i + 2])
        THEN LET cp == (b - 224) * 4096 + (bs[i + 1] - 128) * 64
                         + (bs[i + 2] - 128)
             IN  IF cp < 2048 \/ (cp >= 55296 /\ cp <= 57343) THEN bad
                 ELSE utf8_decode_from(bs, i + 3, Append(acc, cp))
        ELSE bad
      ELSE IF b >= 240 /\ b <= 244 THEN
        IF /\ i + 3 <= Len(bs)
           /\ IsCont(bs[i + 1]) /\ IsCont(bs[i + 2]) /\ IsCont(bs[i + 3])
        THEN LET cp == (b - 240) * 262144 + (bs[i + 1] - 128) * 4096
                         + (bs[i + 2] - 128) * 64 + (bs[i + 3] - 128)
             IN  IF cp < 65536 \/ cp > 1114111 THEN bad
                 ELSE utf8_decode_from(bs, i + 4, Append(acc, cp))
        ELSE bad
      ELSE bad

utf8_decode(bs) == utf8_decode_from(bs, 1, <<>>)

(***************************************************************************)
(* struct.unpack('>i', b) and struct.unpack('>f', b) on 4 bytes.  An int   *)
(* is its two's-complement value; a float is kept as the fields of its     *)
(* IEEE-754 single: sign, biased exponent, mantissa.                       *)
(***************************************************************************)
unpack_i(b) ==
    [t |-> "i",
     v |-> (IF b[1] >= 128 THEN b[1] - 256 ELSE b[1]) * 16777216
             + b[2] * 65536 + b[3] * 256 + b[4]]

unpack_f(b) ==
    [t    |-> "f",
     sign |-> b[1] \div 128,
     exp  |-> (b[1] % 128) * 2 + (b[2] \div 128),
     man  |-> (b[2] % 128) * 65536 + b[3] * 256 + b[4]]

(***************************************************************************)
(* osc_transport.parse_osc_string: the NUL-terminated string at offset and *)
(* the offset after its padding; none when there is no NUL; raised when    *)
(* the bytes are not UTF-8 (the decode raises).                            *)
(***************************************************************************)
\* a reader that takes the end of the buffer for a terminator
find_nul_or_end(data, offset) ==
    LET S == {i \in offset..(Len(data) - 1) : data[i + 1] = 0}
    IN  IF S = {} THEN Len(data) ELSE Min(S)

find_nul(data, offset) ==
    LET S == {i \in offset..(Len(data) - 1) : data[i + 1] = 0}
    IN  IF S = {} THEN -1 ELSE Min(S)

\* padding computed from the length without the NUL
osc_padding_without_nul(n) ==
    LET padding == 4 - ((n - 1) % 4)
    IN  IF padding = 4 THEN 0 ELSE padding

\* padding without the `if padding == 4` of lines 94-95
osc_padding_no_normalize(n) == 4 - (n % 4)

osc_padding(n) ==
    LET padding == 4 - (n % 4)
    IN  IF padding = 4 THEN 0 ELSE padding

parse_osc_string(data, offset) ==
    LET end == find_nul(data, offset)
    IN  IF end = -1
        THEN [none |-> TRUE, raised |-> FALSE, s |-> <<>>, offset |-> offset]
        ELSE LET d == utf8_decode(Slice(data, offset, end))
             IN  IF ~d.ok
                 THEN [none |-> FALSE, raised |-> TRUE, s |-> <<>>,
                       offset |-> offset]
                 ELSE [none |-> FALSE, raised |-> FALSE, s |-> d.s,
                       offset |-> end + 1 + osc_padding(end - offset + 1)]

(***************************************************************************)
(* The argument loop of parse_osc_message (lines 115-126): one pass over   *)
(* the tag characters, 4 bytes per 'i' or 'f' when 4 bytes are left.       *)
(***************************************************************************)
\* the loop with `offset + 4 < len(data)` for its bounds check
RECURSIVE parse_args_strict_bound(_, _, _, _)
parse_args_strict_bound(data, tags, offset, args) ==
    IF tags = <<>> THEN args
    ELSE
      LET t == Head(tags)
      IN
      IF t = CH_i THEN
        IF offset + 4 < Len(data)
        THEN parse_args_strict_bound(data, Tail(tags), offset + 4,
                 Append(args, unpack_i(Slice(data, offset, offset + 4))))
        ELSE parse_args_strict_bound(data, Tail(tags), offset, args)
      ELSE IF t = CH_f THEN
        IF offset + 4 < Len(data)
        THEN parse_args_strict_bound(data, Tail(tags), offset + 4,
                 Append(args, unpack_f(Slice(data, offset, offset + 4))))
        ELSE parse_args_strict_bound(data, Tail(tags), offset, args)
      ELSE parse_args_strict_bound(data, Tail(tags), offset, args)

\* the loop with an unknown tag character stepping over 4 bytes
RECURSIVE parse_args_unknown_consumes(_, _, _, _)
parse_args_unknown_consumes(data, tags, offset, args) ==
    IF tags = <<>> THEN args
    ELSE
      LET t == Head(tags)
      IN
      IF t = CH_i THEN
        IF offset + 4 <= Len(data)
        THEN parse_args_unknown_consumes(data, Tail(tags), offset + 4,
                 Append(args, unpack_i(Slice(data, offset, offset + 4))))
        ELSE parse_args_unknown_consumes(data, Tail(tags), offset, args)
      ELSE IF t = CH_f THEN
        IF offset + 4 <= Len(data)
        THEN parse_args_unknown_consumes(data, Tail(tags), offset + 4,
                 Append(args, unpack_f(Slice(data, offset, offset + 4))))
        ELSE parse_args_unknown_consumes(data, Tail(tags), offset, args)
      ELSE parse_args_unknown_consumes(data, Tail(tags), offset + 4, args)

RECURSIVE parse_args(_, _, _, _)
parse_args(data, tags, offset, args) ==
    IF tags = <<>> THEN args
    ELSE
      LET t == Head(tags)
      IN
      IF t = CH_i THEN
        IF offset + 4 <= Len(data)
        THEN parse_args(data, Tail(tags), offset + 4,
                 Append(args, unpack_i(Slice(data, offset, offset + 4))))
        ELSE parse_args(data, Tail(tags), offset, args)
      ELSE IF t = CH_f THEN
        IF offset + 4 <= Len(data)
        THEN parse_args(data, Tail(tags), offset + 4,
                 Append(args, unpack_f(Slice(data, offset, offset + 4))))
        ELSE parse_args(data, Tail(tags), offset, args)
      ELSE parse_args(data, Tail(tags), offset, args)

\* (None, None)
NoMessage ==
    [ok |-> FALSE, raised |-> FALSE, printed |-> FALSE, address |-> <<>>,
     args |-> <<>>]
Message(address, args) ==
    [ok |-> TRUE, raised |-> FALSE, printed |-> FALSE, address |-> address,
     args |-> args]
\* an exception on its way out of the try block
Raised ==
    [ok |-> FALSE, raised |-> TRUE, printed |-> FALSE, address |-> <<>>,
     args |-> <<>>]

\* the try block of parse_osc_message (lines 101-128)
parse_osc_message_try(data) ==
    LET a == parse_osc_string(data, 0)
    IN
    IF a.raised THEN Raised
    ELSE IF a.none \/ a.s = <<>> \/ ~startswith(a.s, <<SLASH>>) THEN NoMessage
    ELSE IF a.offset >= Len(data) THEN Message(a.s, <<>>)
    ELSE
      LET tt == parse_osc_string(data, a.offset)
      IN
      IF tt.raised THEN Raised
      ELSE IF tt.none \/ tt.s = <<>> \/ ~startswith(tt.s, <<COMMA>>)
      THEN Message(a.s, <<>>)
      ELSE Message(a.s, parse_args(data, Tail(tt.s), tt.offset, <<>>))

\* the function without its `except Exception`
parse_osc_message_no_except(data) == parse_osc_message_try(data)

\* parse_osc_message: the try block, and `except Exception` (lines 129-131)
parse_osc_message(data) ==
    LET r == parse_osc_message_try(data)
    IN  IF r.raised THEN [NoMessage EXCEPT !.printed = TRUE] ELSE r

(***************************************************************************)
(* The datagrams the model receives.  An input is described by the bytes   *)
(* of its address string, the bytes of the string after it (the type tag), *)
(* its argument values, and len, the number of bytes of the framed         *)
(* datagram that arrive (a datagram cut short has len below the framed     *)
(* length).  Framing is OSC 1.0: a string, a NUL, and NULs up to the next  *)
(* multiple of 4; an argument is 4 bytes, big-endian.                      *)
(***************************************************************************)
RECURSIVE utf8_encode(_)
utf8_encode(s) ==
    IF s = <<>> THEN <<>>
    ELSE LET c == Head(s)
             e == IF c < 128 THEN <<c>>
                  ELSE IF c < 2048 THEN <<192 + (c \div 64), 128 + (c % 64)>>
                  ELSE IF c < 65536
                       THEN <<224 + (c \div 4096), 128 + ((c \div 64) % 64),
                              128 + (c % 64)>>
                       ELSE <<240 + (c \div 262144),
                              128 + ((c \div 4096) % 64),
                              128 + ((c \div 64) % 64), 128 + (c % 64)>>
         IN  e \o utf8_encode(Tail(s))

Zeros(n) == [i \in 1..n |-> 0]

osc_frame(bytes) ==
    LET k == CHOOSE j \in 0..3 : (Len(bytes) + 1 + j) % 4 = 0
    IN  bytes \o <<0>> \o Zeros(k)

pack_i(v) ==
    LET u == IF v < 0 THEN v + 2147483647 + 1 ELSE v
        b1 == (u \div 16777216) + (IF v < 0 THEN 128 ELSE 0)
    IN  <<b1, (u \div 65536) % 256, (u \div 256) % 256, u % 256>>

pack_f(sign, exp, man) ==
    <<sign * 128 + (exp \div 2), (exp % 2) * 128 + (man \div 65536),
      (man \div 256) % 256, man % 256>>

\* an argument value: an int, or a float by the fields of its IEEE-754
\* single
IntArg(v) == [t |-> "i", v |-> v]
FloatArg(sign, exp, man) ==
    [t |-> "f", sign |-> sign, exp |-> exp, man |-> man]

pack(a) == IF a.t = "i" THEN pack_i(a.v) ELSE pack_f(a.sign, a.exp, a.man)

RECURSIVE Payload(_)
Payload(vals) ==
    IF vals = <<>> THEN <<>> ELSE pack(Head(vals)) \o Payload(Tail(vals))

Framed(abytes, tag, vals) ==
    osc_frame(abytes) \o osc_frame(tag) \o Payload(vals)

Wire(in) == Slice(Framed(in.abytes, in.tag, in.vals), 0, in.len)

\* the sequences over S of length 0..n
SeqsUpTo(S, n) == UNION {[1..k -> S] : k \in 0..n}

\* address strings (code points)
A_x == <<47, 120>>                  \* "/x"
A_xy == <<47, 120, 121>>            \* "/xy"
A_e == <<47, 233>>                  \* "/" and e-acute: 3 bytes of UTF-8
A_play == <<47, 116, 114, 97, 110, 115, 112, 111, 114, 116, 47,
            112, 108, 97, 121>>     \* "/transport/play"
A_stop == <<47, 116, 114, 97, 110, 115, 112, 111, 114, 116, 47,
            115, 116, 111, 112>>    \* "/transport/stop"
A_undo == <<47, 116, 114, 97, 110, 115, 112, 111, 114, 116, 47,
            117, 110, 100, 111>>    \* "/transport/undo"
A_deep == <<47, 116, 114, 97, 110, 115, 112, 111, 114, 116, 47,
            100, 101, 101, 112, 47, 112, 108, 97, 121>>
                                    \* "/transport/deep/play"
A_bogus == <<47, 116, 114, 97, 110, 115, 112, 111, 114, 116, 47,
             98, 111, 103, 117, 115>>   \* "/transport/bogus"
A_foo == <<47, 102, 111, 111, 47, 98, 97, 114>>     \* "/foo/bar"
A_cc == <<47, 109, 105, 100, 105, 47, 99, 99>>      \* "/midi/cc"
A_slider10 == <<47, 115, 108, 105, 100, 101, 114, 47, 49, 48>>
                                    \* "/slider/10"
A_sliderabc == <<47, 115, 108, 105, 100, 101, 114, 47, 97, 98, 99>>
                                    \* "/slider/abc"

ShortAddresses == {A_x, A_xy, A_e}
RouteAddresses == {A_play, A_stop, A_undo, A_deep, A_bogus, A_foo, A_cc,
                   A_slider10}
Addresses == ShortAddresses \cup RouteAddresses

\* address bytes that are no address: empty, no leading '/', not UTF-8
\* (a lone 0xFF; a 2-byte lead with nothing after it)
BadAddressBytes == {<<>>, <<120>>, <<47, 255>>, <<47, 195>>}

\* type tags: ',' and up to MaxTagLen of 'i', 'f' and 's' (a tag character
\* the parser does not know), and the ",iii" of /midi/cc
TagChars == {CH_i, CH_f, 115}
TypeTags == {<<COMMA>> \o t : t \in SeqsUpTo(TagChars, MaxTagLen)}
              \cup {<<COMMA, CH_i, CH_i, CH_i>>}
\* strings after the address that are no type tag: empty, no leading ',',
\* not UTF-8
BadTags == {<<>>, <<CH_i, CH_i>>, <<255>>, <<COMMA, CH_i, 255>>}


\* 0.0, 0.5, 1.0, 2.0, -1.0 and a NaN
F_zero == FloatArg(0, 0, 0)
F_half == FloatArg(0, 126, 0)
F_one == FloatArg(0, 127, 0)
F_two == FloatArg(0, 128, 0)
F_minus_one == FloatArg(1, 127, 0)
F_nan == FloatArg(0, 255, 4194304)

\* the argument values a generated datagram carries: the j-th 'i' or 'f'
\* of its tag takes the j-th int or float of one of two tables
IntTable ==
    <<<<IntArg(1), IntArg(64), IntArg(100), IntArg(7)>>,
      <<IntArg(-1), IntArg(127), IntArg(0), IntArg(-2147483647 - 1)>>>>
FloatTable ==
    <<<<F_half, F_one, F_two, F_zero>>,
      <<F_minus_one, F_nan, F_half, F_one>>>>
Tables == {1, 2}

RECURSIVE ValsFor(_, _, _)
ValsFor(chars, table, j) ==
    IF chars = <<>> THEN <<>>
    ELSE IF Head(chars) = CH_i
         THEN <<IntTable[table][j]>> \o ValsFor(Tail(chars), table, j + 1)
    ELSE IF Head(chars) = CH_f
         THEN <<FloatTable[table][j]>> \o ValsFor(Tail(chars), table, j + 1)
    ELSE ValsFor(Tail(chars), table, j)

\* one-argument values of routed datagrams
RouteVals == {IntArg(0), IntArg(127), IntArg(-1), F_zero, F_half,
              F_minus_one, F_nan}
TagOf(a) == IF a.t = "i" THEN <<COMMA, CH_i>> ELSE <<COMMA, CH_f>>

InputOf(abytes, tag, vals, len) ==
    [abytes |-> abytes, tag |-> tag, vals |-> vals, len |-> len]

FramedLen(in) == Len(Framed(in.abytes, in.tag, in.vals))

\* the cuts of a datagram: every length from 0 to the whole
Cuts(abytes, tag, vals) ==
    {InputOf(abytes, tag, vals, n) :
        n \in 0..Len(Framed(abytes, tag, vals))}
\* whole, or cut in the last 8 bytes
LastCuts(abytes, tag, vals) ==
    {in \in Cuts(abytes, tag, vals) : in.len + 8 >= FramedLen(in)}

\* short addresses, every tag, every cut
ParseInputs ==
    UNION {Cuts(utf8_encode(a), tg, ValsFor(Tail(tg), tb, 1)) :
              a \in ShortAddresses, tg \in TypeTags, tb \in Tables}
\* short addresses, a string that is no type tag, every cut
BadTagInputs ==
    UNION {Cuts(utf8_encode(a), tg, <<IntArg(1)>>) :
              a \in ShortAddresses, tg \in BadTags}
\* bad addresses, every cut
BadAddressInputs ==
    UNION {Cuts(ab, <<COMMA, CH_i>>, <<IntArg(127)>>) :
              ab \in BadAddressBytes}
\* routed addresses with one argument, whole or cut in the last 8 bytes
RouteInputs ==
    UNION {LastCuts(utf8_encode(a), TagOf(v), <<v>>) :
              a \in RouteAddresses, v \in RouteVals}
        \cup LastCuts(utf8_encode(A_cc), <<COMMA, CH_i, CH_i, CH_i>>,
                      <<IntArg(1), IntArg(64), IntArg(100)>>)

Inputs ==
    ParseInputs \cup BadTagInputs \cup BadAddressInputs \cup RouteInputs

(***************************************************************************)
(* osc_transport.py: the table, the handler, the loop.                     *)
(***************************************************************************)
K_record == <<114, 101, 99, 111, 114, 100>>
K_play == <<112, 108, 97, 121>>
K_stop == <<115, 116, 111, 112>>
K_rewind == <<114, 101, 119, 105, 110, 100>>
K_undo == <<117, 110, 100, 111>>
K_loop == <<108, 111, 111, 112>>
K_click == <<99, 108, 105, 99, 107>>
K_marker == <<109, 97, 114, 107, 101, 114>>
K_prevMarker == <<112, 114, 101, 118, 77, 97, 114, 107, 101, 114>>
K_nextMarker == <<110, 101, 120, 116, 77, 97, 114, 107, 101, 114>>
K_save == <<115, 97, 118, 101>>

Keystroke(key, with_command) == [key |-> key, with_command |-> with_command]

TRANSPORT_MAP ==
    (K_record :> Keystroke("r", FALSE)) @@
    (K_play :> Keystroke("space", FALSE)) @@
    (K_stop :> Keystroke(".", FALSE)) @@
    (K_rewind :> Keystroke(",", FALSE)) @@
    (K_undo :> Keystroke("z", TRUE)) @@
    (K_loop :> Keystroke("c", FALSE)) @@
    (K_click :> Keystroke("k", FALSE)) @@
    (K_marker :> Keystroke("'", FALSE)) @@
    (K_prevMarker :> Keystroke(",", TRUE)) @@
    (K_nextMarker :> Keystroke(".", TRUE)) @@
    (K_save :> Keystroke("s", TRUE))

\* "/transport/"
P_transport == <<47, 116, 114, 97, 110, 115, 112, 111, 114, 116, 47>>

\* the int 127 of `args[0] if args else 127`
DefaultValue == [t |-> "i", v |-> 127]

\* Python's `value > 0` on a decoded argument (a NaN compares false)
gt_zero(a) ==
    IF a.t = "i" THEN a.v > 0
    ELSE /\ a.sign = 0
         /\ ~(a.exp = 0 /\ a.man = 0)
         /\ ~(a.exp = 255 /\ a.man # 0)

NoEffect == [report |-> {}, call |-> <<>>]

\* a handler that injects the action key itself, without the table
osc_transport_handle_transport_raw_key(action, value) ==
    IF gt_zero(value)
    THEN [report |-> {"pressed"}, call |-> <<Keystroke(action, FALSE)>>]
    ELSE NoEffect

\* osc_transport.handle_transport, up to its call of send_keystroke
osc_transport_handle_transport(action, value) ==
    IF action \notin DOMAIN TRANSPORT_MAP
    THEN [report |-> {"Unknown action"}, call |-> <<>>]
    ELSE IF gt_zero(value)
         THEN [report |-> {"pressed"}, call |-> <<TRANSPORT_MAP[action]>>]
         ELSE NoEffect

\* the body of the loop after parse_osc_message (lines 178-185)
osc_transport_dispatch(m) ==
    IF m.ok /\ m.address # <<>>
    THEN IF startswith(m.address, P_transport)
         THEN osc_transport_handle_transport(
                  last_segment(m.address),
                  IF m.args # <<>> THEN m.args[1] ELSE DefaultValue)
         ELSE [report |-> {"Received"}, call |-> <<>>]
    ELSE NoEffect

(***************************************************************************)
(* osc_to_midi.py.  python-osc decodes the datagram and hands the address  *)
(* and the arguments to the handlers the dispatcher maps; a datagram it    *)
(* cannot parse is dropped (malformed).  Arguments are the ints and floats *)
(* of unpack_i and unpack_f.                                               *)
(***************************************************************************)
\* one OSC message of a datagram
Element(address, args) == [address |-> address, args |-> args]
\* a datagram that is one message
Packet(address, args) ==
    [malformed |-> FALSE, address |-> address, args |-> args,
     elements |-> <<Element(address, args)>>]
\* a datagram that is a bundle ("#bundle", a time tag of "immediately" and
\* the messages): python-osc's OscPacket yields every message of it
A_bundle == <<35, 98, 117, 110, 100, 108, 101>>
Bundle(elements) ==
    [malformed |-> FALSE, address |-> A_bundle, args |-> <<>>,
     elements |-> elements]
MalformedPacket ==
    [malformed |-> TRUE, address |-> <<>>, args |-> <<>>, elements |-> <<>>]
NoPacket ==
    [malformed |-> FALSE, address |-> <<>>, args |-> <<>>, elements |-> <<>>]

\* 0.3 as a float32 (0x3E99999A)
F_third == FloatArg(0, 125, 1677722)

A_slider127 == <<47, 115, 108, 105, 100, 101, 114, 47, 49, 50, 55>>
                                    \* "/slider/127"
A_slider200 == <<47, 115, 108, 105, 100, 101, 114, 47, 50, 48, 48>>
                                    \* "/slider/200"

MidiPackets ==
    {MalformedPacket,
     Packet(A_stop, <<IntArg(0)>>), Packet(A_stop, <<IntArg(127)>>),
     Packet(A_stop, <<>>),
     Packet(A_play, <<F_half>>), Packet(A_deep, <<IntArg(127)>>),
     Packet(A_bogus, <<IntArg(127)>>), Packet(A_bogus, <<IntArg(0)>>),
     Packet(A_foo, <<IntArg(1)>>), Packet(A_foo, <<>>),
     Packet(A_slider10, <<F_half>>), Packet(A_slider10, <<F_one>>),
     Packet(A_slider10, <<F_zero>>), Packet(A_slider10, <<F_two>>),
     Packet(A_slider10, <<F_third>>), Packet(A_slider127, <<F_one>>),
     Packet(A_slider200, <<F_half>>),
     Packet(A_slider10, <<>>), Packet(A_sliderabc, <<F_half>>),
     Packet(A_cc, <<IntArg(1), IntArg(64), IntArg(100)>>),
     Packet(A_cc, <<IntArg(16), IntArg(127), IntArg(0)>>),
     Packet(A_cc, <<IntArg(1), IntArg(64)>>),
     Packet(A_cc, <<IntArg(1), IntArg(64), IntArg(100), IntArg(5)>>),
     Packet(A_cc, <<IntArg(0), IntArg(64), IntArg(100)>>),
     Bundle(<<Element(A_play, <<IntArg(127)>>),
              Element(A_stop, <<IntArg(127)>>)>>)}

RECURSIVE Pow2(_)
Pow2(k) == IF k = 0 THEN 1 ELSE 2 * Pow2(k - 1)

\* int(x) on an argument: an int as it is, a float truncated toward zero
\* (exact for |x| < 2^31), ValueError/OverflowError on a NaN or an infinity
py_int(a) ==
    IF a.t = "i" THEN [ok |-> TRUE, v |-> a.v]
    ELSE IF a.exp = 255 THEN [ok |-> FALSE, v |-> 0]
    ELSE IF a.exp < 127 THEN [ok |-> TRUE, v |-> 0]
    ELSE LET m == 8388608 + a.man
             mag == IF a.exp <= 150 THEN m \div Pow2(150 - a.exp)
                    ELSE m * Pow2(a.exp - 150)
         IN  [ok |-> TRUE, v |-> IF a.sign = 1 THEN 0 - mag ELSE mag]

\* a scaling by 128 in place of 127
py_int_times_128(a) ==
    IF a.t = "i" THEN [ok |-> TRUE, v |-> a.v * 128]
    ELSE IF a.exp = 255 THEN [ok |-> FALSE, v |-> 0]
    ELSE IF a.exp < 119 THEN [ok |-> TRUE, v |-> 0]
    ELSE LET m == 8388608 + a.man
             mag == m \div Pow2(143 - a.exp)
         IN  [ok |-> TRUE, v |-> IF a.sign = 1 THEN 0 - mag ELSE mag]

\* int(float(x) * 127) on an argument: the product is exact in a double
\* (24 bits by 7), then truncated toward zero; for a float below 2^24 and
\* an int below 2^24 in size
py_int_times_127(a) ==
    IF a.t = "i" THEN [ok |-> TRUE, v |-> a.v * 127]
    ELSE IF a.exp = 255 THEN [ok |-> FALSE, v |-> 0]
    ELSE IF a.exp < 119 THEN [ok |-> TRUE, v |-> 0]
    ELSE LET m == (8388608 + a.man) * 127
             mag == m \div Pow2(150 - a.exp)
         IN  [ok |-> TRUE, v |-> IF a.sign = 1 THEN 0 - mag ELSE mag]

\* int(s) on a string: an optional sign and ASCII digits, else ValueError
RECURSIVE digits_value(_, _)
digits_value(s, acc) ==
    IF s = <<>> THEN acc
    ELSE digits_value(Tail(s), acc * 10 + (Head(s) - 48))

py_int_str(s) ==
    LET neg == s # <<>> /\ s[1] = 45
        body == IF s # <<>> /\ s[1] \in {43, 45} THEN Tail(s) ELSE s
    IN  IF body = <<>> \/ \E k \in 1..Len(body) : body[k] < 48 \/ body[k] > 57
        THEN [ok |-> FALSE, v |-> 0]
        ELSE [ok |-> TRUE,
              v |-> IF neg THEN 0 - digits_value(body, 0)
                    ELSE digits_value(body, 0)]

ControlChange(channel, control, value) ==
    [channel |-> channel, control |-> control, value |-> value]
NoCC == ControlChange(0, 0, 0)

\* mido.Message('control_change', ...) raises ValueError on a channel
\* outside 0..15 or a data byte outside 0..127
mido_valid(m) ==
    /\ m.channel \in 0..15
    /\ m.control \in 0..127
    /\ m.value \in 0..127

\* what a handler does: return, raise (an exception leaves the handler),
\* or call midi_out.send(out); report is what it prints before that
Return(report) == [kind |-> "return", out |-> NoCC, report |-> report]
Raise == [kind |-> "raise", out |-> NoCC, report |-> {}]
Send(m) == [kind |-> "send", out |-> m, report |-> {}]

\* handle_cc without the conversion of the channel to 0-indexed
handle_cc_channel_as_given(address, args) ==
    IF Len(args) >= 3
    THEN LET c == py_int(args[1])
             k == py_int(args[2])
             x == py_int(args[3])
         IN  IF ~c.ok \/ ~k.ok \/ ~x.ok THEN Raise
             ELSE LET m == ControlChange(c.v, k.v, x.v)
                  IN  IF mido_valid(m) THEN Send(m) ELSE Raise
    ELSE Return({})

\* osc_to_midi.handle_cc
handle_cc(address, args) ==
    IF Len(args) >= 3
    THEN LET c == py_int(args[1])
             k == py_int(args[2])
             x == py_int(args[3])
         IN  IF ~c.ok \/ ~k.ok \/ ~x.ok THEN Raise
             ELSE LET m == ControlChange(c.v - 1, k.v, x.v)
                  IN  IF mido_valid(m) THEN Send(m) ELSE Raise
    ELSE Return({})

transport_cc ==
    (K_record :> 116) @@ (K_play :> 117) @@ (K_stop :> 118) @@
    (K_rewind :> 119) @@ (K_undo :> 120) @@ (K_loop :> 121) @@
    (K_click :> 122) @@ (K_marker :> 123) @@ (K_prevMarker :> 124) @@
    (K_nextMarker :> 125) @@ (K_save :> 126)

\* osc_to_midi.handle_transport
osc_to_midi_handle_transport(address, args) ==
    IF args = <<>> THEN Return({})
    ELSE LET action == last_segment(address)
             value == py_int(args[1])
         IN  IF ~value.ok THEN Raise
             ELSE IF action \in DOMAIN transport_cc
             THEN LET m == ControlChange(0, transport_cc[action], value.v)
                  IN  IF mido_valid(m) THEN Send(m) ELSE Raise
             ELSE Return({})

\* osc_to_midi.handle_slider: the ValueError of int() and of mido.Message
\* is caught and printed
handle_slider(address, args) ==
    IF args = <<>> THEN Return({})
    ELSE LET slider_id == py_int_str(last_segment(address))
             value == py_int_times_127(args[1])
         IN  IF ~slider_id.ok \/ ~value.ok
             THEN Return({"Error parsing slider"})
             ELSE LET m == ControlChange(0, slider_id.v, value.v)
                  IN  IF mido_valid(m) THEN Send(m)
                      ELSE Return({"Error parsing slider"})

\* a default handler that prints nothing
default_handler_silent(address, args) == Return({})

\* default_handler (lines 135-137)
default_handler(address, args) == Return({"Unhandled OSC"})

\* disp.map (lines 130-132), in the order mapped
P_slider == <<47, 115, 108, 105, 100, 101, 114, 47>>
HandlerMap ==
    <<[pattern |-> A_cc, wildcard |-> FALSE, handler |-> "handle_cc"],
      [pattern |-> P_transport, wildcard |-> TRUE,
       handler |-> "handle_transport"],
      [pattern |-> P_slider, wildcard |-> TRUE, handler |-> "handle_slider"]>>

\* python-osc's Dispatcher.handlers_for_address for an address without
\* pattern characters: a mapped address matches when it is the address, or
\* when it ends in '*' and what is before the '*' begins the address
\* (re.match of "/transport/[^/]*?/*" is not anchored at the end); with no
\* match, the default handler
pattern_matches(e, address) ==
    IF e.wildcard THEN startswith(address, e.pattern)
    ELSE address = e.pattern

RECURSIVE matching_handlers(_, _)
matching_handlers(map, address) ==
    IF map = <<>> THEN <<>>
    ELSE (IF pattern_matches(Head(map), address)
          THEN <<Head(map).handler>> ELSE <<>>)
            \o matching_handlers(Tail(map), address)

handlers_for_address(address) ==
    LET hs == matching_handlers(HandlerMap, address)
    IN  IF hs = <<>> THEN <<"default_handler">> ELSE hs

invoke(handler, address, args) ==
    CASE handler = "handle_cc" -> handle_cc(address, args)
      [] handler = "handle_transport" ->
             osc_to_midi_handle_transport(address, args)
      [] handler = "handle_slider" -> handle_slider(address, args)
      [] OTHER -> default_handler(address, args)

\* python-osc's call_handlers_for_packet: for every message of the
\* datagram, in order, every handler of its address
Invocation(handler, e) ==
    [handler |-> handler, address |-> e.address, args |-> e.args]
RECURSIVE handlers_for_packet(_)
handlers_for_packet(elements) ==
    IF elements = <<>> THEN <<>>
    ELSE LET e == Head(elements)
             hs == handlers_for_address(e.address)
         IN  [j \in 1..Len(hs) |-> Invocation(hs[j], e)]
                \o handlers_for_packet(Tail(elements))

\* one handler thread of ThreadingOSCUDPServer
IdleThread ==
    [pc |-> "idle", packet |-> NoPacket, todo |-> <<>>, handler |-> "",
     out |-> NoCC, sent |-> <<>>, report |-> {}]

VARIABLES
    backend,    \* "keys": osc_transport.py; "midi": osc_to_midi.py
    pc,         \* where main() stands
    exit,       \* why main() ended: "none" while it runs
    input,      \* the description of the datagram in hand
    data,       \* its bytes
    msg,        \* what parse_osc_message returned for it
    pending,    \* the keystroke send_keystroke is about to inject
    sent,       \* the actuator calls made for the datagram in hand
    report,     \* what was printed for it
    nRecv,      \* datagrams received so far
    nSent,      \* actuator calls made so far
    threads,    \* the handler threads of the MIDI backend, one per datagram
    midi_closed \* midi_out.close() has run

vars == <<backend, pc, exit, input, data, msg, pending, sent, report, nRecv,
          nSent, threads, midi_closed>>
keysVars == <<input, data, msg, pending, sent, report>>

NoInput == InputOf(<<>>, <<>>, <<>>, 0)

InitFor(b) ==
    /\ backend = b
    /\ pc = "Start"
    /\ exit = "none"
    /\ input = NoInput
    /\ data = <<>>
    /\ msg = NoMessage
    /\ pending = <<>>
    /\ sent = <<>>
    /\ report = {}
    /\ nRecv = 0
    /\ nSent = 0
    /\ threads = [t \in 1..MaxDatagrams |-> IdleThread]
    /\ midi_closed = FALSE

Init == \E b \in {"keys", "midi"} : InitFor(b)
InitKeys == InitFor("keys")
InitMidi == InitFor("midi")

\* sock.bind (lines 163-171): the port is free, or OSError and sys.exit(1)
Bind ==
    /\ backend = "keys" /\ pc = "Start"
    /\ \E free \in BOOLEAN :
          IF free THEN pc' = "Listening" /\ exit' = exit
          ELSE pc' = "Exited" /\ exit' = "bind"
    /\ UNCHANGED <<backend, input, data, msg, pending, sent, report, nRecv,
                   nSent, threads, midi_closed>>

\* sock.recvfrom (line 175)
Recv ==
    /\ backend = "keys" /\ pc = "Listening"
    /\ nRecv < MaxDatagrams
    /\ \E in \in Inputs :
          /\ input' = in
          /\ data' = Wire(in)
    /\ pc' = "Decode"
    /\ msg' = NoMessage
    /\ pending' = <<>>
    /\ sent' = <<>>
    /\ report' = {}
    /\ nRecv' = nRecv + 1
    /\ UNCHANGED <<backend, exit, nSent, threads, midi_closed>>

\* parse_osc_message(data) (line 176); an exception it lets through ends
\* the loop (nothing in main catches it)
Decode ==
    /\ backend = "keys" /\ pc = "Decode"
    /\ LET r == parse_osc_message(data)
       IN  /\ msg' = r
           /\ report' = IF r.printed THEN {"Parse error"} ELSE {}
           /\ IF r.raised
              THEN pc' = "Terminated" /\ exit' = "exception"
              ELSE pc' = "Route" /\ exit' = exit
    /\ UNCHANGED <<backend, input, data, pending, sent, nRecv, nSent, threads, midi_closed>>

\* lines 178-185 and handle_transport
Route ==
    /\ backend = "keys" /\ pc = "Route"
    /\ LET e == osc_transport_dispatch(msg)
       IN  /\ report' = report \cup e.report
           /\ pending' = e.call
           /\ pc' = IF e.call = <<>> THEN "Done" ELSE "Send"
    /\ UNCHANGED <<backend, exit, input, data, msg, sent, nRecv, nSent, threads, midi_closed>>

\* send_keystroke (lines 48-84): osascript runs and returns, or
\* subprocess.run raises (no osascript, the 2 s timeout) and the exception
\* is caught and printed; both return to the loop
SendKeystroke ==
    /\ backend = "keys" /\ pc = "Send"
    /\ sent' = sent \o pending
    /\ nSent' = nSent + 1
    /\ pending' = <<>>
    /\ \E outcome \in {"ok", "failed"} :
          report' = IF outcome = "failed"
                    THEN report \cup {"Error sending keystroke"}
                    ELSE report
    /\ pc' = "Done"
    /\ UNCHANGED <<backend, exit, input, data, msg, nRecv, threads, midi_closed>>

\* `while True` (line 174): the loop body is over and the datagram's locals
\* are dead; the loop is back at recvfrom
NextDatagram ==
    /\ backend = "keys" /\ pc = "Done"
    /\ pc' = "Listening"
    /\ input' = NoInput
    /\ data' = <<>>
    /\ msg' = NoMessage
    /\ sent' = <<>>
    /\ report' = {}
    /\ UNCHANGED <<backend, exit, pending, nRecv, nSent, threads, midi_closed>>

\* KeyboardInterrupt anywhere in the loop (lines 187-190)
Interrupt ==
    /\ backend = "keys"
    /\ pc \in {"Listening", "Decode", "Route", "Send", "Done"}
    /\ pc' = "Terminated"
    /\ exit' = "interrupt"
    /\ UNCHANGED <<backend, input, data, msg, pending, sent, report, nRecv,
                   nSent, threads, midi_closed>>

\* main of osc_to_midi.py up to serve_forever (lines 114-146): no output
\* device or a port that cannot be bound ends the process
MidiStart ==
    /\ backend = "midi" /\ pc = "Start"
    /\ \E outcome \in {"ok", "nodevice", "bind"} :
          IF outcome = "ok" THEN pc' = "Serving" /\ exit' = exit
          ELSE pc' = "Exited" /\ exit' = outcome
    /\ UNCHANGED <<backend, keysVars, nRecv, nSent, threads, midi_closed>>

\* serve_forever receives a datagram and starts a thread for it
MidiRecv ==
    /\ backend = "midi" /\ pc = "Serving"
    /\ nRecv < MaxDatagrams
    /\ \E p \in MidiPackets :
          LET todo == handlers_for_packet(p.elements)
          IN  threads' = [threads EXCEPT ![nRecv + 1] =
                [IdleThread EXCEPT
                    !.pc = IF todo = <<>> THEN "done" ELSE "handle",
                    !.packet = p,
                    !.todo = todo]]
    /\ nRecv' = nRecv + 1
    /\ UNCHANGED <<backend, pc, exit, keysVars, nSent, midi_closed>>

\* the thread runs its next handler up to its call of midi_out.send; a
\* handler that raises ends the thread (socketserver prints the traceback)
MidiHandle(t) ==
    /\ backend = "midi" /\ threads[t].pc = "handle"
    /\ LET th == threads[t]
           h == Head(th.todo)
           r == invoke(h.handler, h.address, h.args)
           rest == Tail(th.todo)
           after == IF rest = <<>> THEN "done" ELSE "handle"
       IN  threads' = [threads EXCEPT ![t] =
             IF r.kind = "send"
             THEN [th EXCEPT !.pc = "send", !.out = r.out, !.todo = rest,
                             !.handler = h.handler]
             ELSE IF r.kind = "return"
             THEN [th EXCEPT !.pc = after, !.todo = rest,
                             !.report = @ \cup r.report]
             ELSE [th EXCEPT !.pc = "died", !.todo = <<>>,
                             !.report = @ \cup {"traceback"}]]
    /\ UNCHANGED <<backend, pc, exit, keysVars, nRecv, nSent, midi_closed>>

\* the call of midi_out.send is over: it returns, and the handler prints
\* and returns; or the port was closed (line 149) and send raises
\* ValueError, which handle_slider catches (line 101) and which ends the
\* thread in the other handlers
MidiSendEnd(t) ==
    /\ backend = "midi" /\ threads[t].pc = "send"
    /\ LET th == threads[t]
           after == IF th.todo = <<>> THEN "done" ELSE "handle"
       IN  threads' = [threads EXCEPT ![t] =
             IF ~midi_closed
             THEN [th EXCEPT !.pc = after,
                             !.sent = Append(@, th.out),
                             !.out = NoCC, !.handler = "",
                             !.report = @ \cup {"sent"}]
             ELSE IF th.handler = "handle_slider"
             THEN [th EXCEPT !.pc = after,
                             !.sent = Append(@, th.out),
                             !.out = NoCC, !.handler = "",
                             !.report = @ \cup {"Error parsing slider"}]
             ELSE [th EXCEPT !.pc = "died", !.todo = <<>>,
                             !.sent = Append(@, th.out),
                             !.out = NoCC, !.handler = "",
                             !.report = @ \cup {"traceback"}]]
    /\ nSent' = nSent + 1
    /\ UNCHANGED <<backend, pc, exit, keysVars, nRecv, midi_closed>>

\* KeyboardInterrupt in serve_forever (lines 147-149): midi_out.close()
MidiInterrupt ==
    /\ backend = "midi" /\ pc = "Serving"
    /\ pc' = "Terminated"
    /\ exit' = "interrupt"
    /\ midi_closed' = TRUE
    /\ UNCHANGED <<backend, keysVars, nRecv, nSent, threads>>

NextKeys ==
    \/ Bind
    \/ Recv
    \/ Decode
    \/ Route
    \/ SendKeystroke
    \/ NextDatagram
    \/ Interrupt

NextMidi ==
    \/ MidiStart
    \/ MidiRecv
    \/ \E t \in 1..MaxDatagrams : MidiHandle(t)
    \/ \E t \in 1..MaxDatagrams : MidiSendEnd(t)
    \/ MidiInterrupt

Next == NextKeys \/ NextMidi

\* both backends
Spec == Init /\ [][Next]_vars
\* osc_transport.py alone
SpecKeys == InitKeys /\ [][NextKeys]_vars
\* osc_to_midi.py alone
SpecMidi == InitMidi /\ [][NextMidi]_vars

(***************************************************************************)
(* What the claims speak of.                                               *)
(***************************************************************************)
\* the datagram in hand arrived whole
Whole(in) == in.len = FramedLen(in)
\* the offsets at which its address string and its type-tag string end
AddrEnd(in) == Len(osc_frame(in.abytes))
TagEnd(in) == Len(osc_frame(in.abytes)) + Len(osc_frame(in.tag))
\* osc_transport.py has decoded the datagram in hand
Decoded == backend = "keys" /\ pc \in {"Route", "Send", "Done"}
\* osc_transport.py is through with the datagram in hand
Processed == backend = "keys" /\ pc = "Done"
\* /transport/<key> for a key of the transport table
TransportAddress(key) == P_transport \o key
\* a number above zero
Positive(a) ==
    IF a.t = "i" THEN a.v >= 1
    ELSE a.sign = 0 /\ a.exp < 255 /\ (a.exp > 0 \/ a.man > 0)
\* the MIDI threads that are through with their datagram
Finished(t) == backend = "midi" /\ threads[t].pc \in {"done", "died"}
\* the actuator calls a MIDI thread has made or is making
MidiCalls(t) ==
    Len(threads[t].sent) + (IF threads[t].pc = "send" THEN 1 ELSE 0)

\* C1: a /transport/<key> datagram with <key> in the transport table and one
\* numeric argument v makes no actuator call when v <= 0 and exactly one
\* when v > 0, in both backends.
C1_TransportGating ==
    /\ \A key \in DOMAIN TRANSPORT_MAP :
          (/\ Processed
           /\ Whole(input)
           /\ input.abytes = utf8_encode(TransportAddress(key))
           /\ Len(input.vals) = 1)
          => Len(sent) = (IF Positive(input.vals[1]) THEN 1 ELSE 0)
    /\ \A t \in 1..MaxDatagrams : \A key \in DOMAIN transport_cc :
          (/\ backend = "midi"
           /\ threads[t].packet.address = TransportAddress(key)
           /\ Len(threads[t].packet.args) = 1)
          => /\ MidiCalls(t) <= (IF Positive(threads[t].packet.args[1])
                                 THEN 1 ELSE 0)
             /\ Finished(t) =>
                   MidiCalls(t) = (IF Positive(threads[t].packet.args[1])
                                   THEN 1 ELSE 0)

\* C2: only /transport/ followed by a single segment is handled as a
\* transport action: /transport/deep/play is never passed to the transport
\* handler and causes no actuator call.
C2_SingleSegmentWildcard ==
    (backend = "keys" /\ input.abytes = utf8_encode(A_deep) /\ Whole(input))
        => pending = <<>> /\ sent = <<>>

\* C3: no per-message error ends the dispatch loop: the loop is left only by
\* an interrupt, or by a failure at startup before any datagram; until then
\* it goes on, whatever the datagrams were.
LoopStates == {"Listening", "Decode", "Route", "Send", "Done", "Serving"}
C3_LoopSurvivesErrors ==
    /\ exit \in {"none", "interrupt", "bind", "nodevice"}
    /\ pc = "Terminated" => exit = "interrupt"
    /\ pc = "Exited" => exit \in {"bind", "nodevice"} /\ nRecv = 0
    /\ (exit = "none" /\ pc # "Start") => pc \in LoopStates
C3_Witness ==
    \/ /\ Processed /\ nRecv < MaxDatagrams
       /\ "Parse error" \in report
    \/ /\ backend = "midi" /\ pc = "Serving" /\ nRecv < MaxDatagrams
       /\ \E t \in 1..MaxDatagrams : threads[t].pc = "died"

\* C4: a zero-length buffer, a buffer with no NUL, an address that does not
\* begin with '/' and an address that is not UTF-8 all make
\* parse_osc_message return (None, None) without raising, and the loop
\* makes no actuator call for the datagram.
NonUtf8AddressBytes == {<<47, 255>>, <<47, 195>>}
MalformedInput(in) ==
    \/ in.len = 0
    \/ in.len <= Len(in.abytes)
    \/ in.abytes = <<>>
    \/ in.abytes[1] # SLASH
    \/ in.abytes \in NonUtf8AddressBytes
C4_MalformedIsDecodeError ==
    (Decoded /\ MalformedInput(input))
        => /\ msg = NoMessage \/ msg = [NoMessage EXCEPT !.printed = TRUE]
           /\ pending = <<>> /\ sent = <<>>
           /\ pc # "Send"
C4_Witness ==
    /\ Processed
    /\ input.abytes \in NonUtf8AddressBytes /\ input.len > Len(input.abytes)
    /\ ~msg.ok /\ sent = <<>>

\* C5: at most one actuator send is in progress at any time, in either
\* backend.
C5_OneSendAtATime ==
    Cardinality({t \in 1..MaxDatagrams : threads[t].pc = "send"}) <= 1

\* the type-tag characters of a list of argument values
TypeChars(vals) ==
    [j \in 1..Len(vals) |-> IF vals[j].t = "i" THEN CH_i ELSE CH_f]
IsKnownTag(c) == c \in {CH_i, CH_f}
Smaller(x, y) == IF x <= y THEN x ELSE y

\* C6: a well-formed datagram (an address beginning with '/', a type tag of
\* k 'i' or 'f', k 4-byte big-endian values, strings NUL-terminated and
\* padded to 4) decodes to that address and exactly those k values in
\* order.
C6_RoundTrip ==
    \A a \in Addresses :
        (/\ Decoded
         /\ Whole(input)
         /\ input.abytes = utf8_encode(a)
         /\ input.tag = <<COMMA>> \o TypeChars(input.vals))
        => msg = Message(a, input.vals)
C6_Witness ==
    /\ Processed
    /\ Whole(input)
    /\ input.abytes = utf8_encode(A_cc)
    /\ input.tag = <<COMMA, CH_i, CH_i, CH_i>>
    /\ msg.address = A_cc
    /\ msg.args = <<IntArg(1), IntArg(64), IntArg(100)>>

\* C7: when the payload is cut short, parse_osc_message returns the address
\* with the arguments for which 4 full bytes arrived, a prefix of the
\* argument list, whatever tag characters follow.
C7_TruncatedPayloadPrefix ==
    \A a \in Addresses :
        (/\ Decoded
         /\ input.abytes = utf8_encode(a)
         /\ input.tag \in TypeTags
         /\ input.len >= TagEnd(input)
         /\ ~Whole(input))
        => msg = Message(a, SubSeq(input.vals, 1,
                     Smaller(Len(input.vals),
                             (input.len - TagEnd(input)) \div 4)))
C7_Witness ==
    /\ Processed
    /\ input.tag \in TypeTags
    /\ input.len >= TagEnd(input) + 4
    /\ ~Whole(input)
    /\ msg.ok
    /\ Len(msg.args) >= 1
    /\ Len(msg.args) < Len(input.vals)

\* C8: a tag character other than 'i' and 'f' adds no argument and consumes
\* no payload: the arguments are those of the same payload under the tag
\* with these characters removed.
C8_UnknownTagsSkipped ==
    \A a \in Addresses :
        (/\ Decoded
         /\ input.abytes = utf8_encode(a)
         /\ input.tag \in TypeTags
         /\ input.len >= TagEnd(input)
         /\ \E j \in 2..Len(input.tag) : ~IsKnownTag(input.tag[j]))
        => msg = parse_osc_message(
                     osc_frame(input.abytes)
                       \o osc_frame(<<COMMA>>
                                      \o SelectSeq(Tail(input.tag), IsKnownTag))
                       \o Slice(data, TagEnd(input), input.len))
C8_Witness ==
    /\ Processed
    /\ Whole(input)
    /\ input.tag = <<COMMA, 115, CH_i>>
    /\ msg.ok
    /\ msg.args = input.vals
    /\ Len(msg.args) = 1

\* C9: a valid, terminated and padded address followed by a type-tag string
\* with no NUL before the end of the buffer is a decode error, not a
\* message.
C9_TruncatedTagIsError ==
    \A a \in Addresses :
        (/\ Decoded
         /\ input.abytes = utf8_encode(a)
         /\ input.tag \in TypeTags
         /\ input.len > AddrEnd(input)
         /\ input.len <= AddrEnd(input) + Len(input.tag))
        => ~msg.ok

\* C10: when the buffer ends right after the padded address, or the string
\* after the address does not begin with ',', parse_osc_message returns the
\* address with an empty argument list.
C10_AbsentOrBadTagIsEmptyArgs ==
    \A a \in Addresses :
        (/\ Decoded
         /\ input.abytes = utf8_encode(a)
         /\ \/ input.len = AddrEnd(input)
            \/ /\ input.len >= TagEnd(input)
               /\ (input.tag = <<>> \/ input.tag[1] # COMMA))
        => msg = Message(a, <<>>)

\* the datagram of MIDI thread t is the one message (address, args)
Single(t) == Len(threads[t].packet.elements) = 1
\* text of decimal digits, the integers a slider id is written as
IsDigits(seg) ==
    seg # <<>> /\ \A j \in 1..Len(seg) : seg[j] >= 48 /\ seg[j] <= 57
\* the address is under a registered pattern but the arguments are missing
\* or the slider id is no integer
MissingTransportArg(address, args) ==
    startswith(address, P_transport) /\ args = <<>>
BadArguments(address, args) ==
    \/ MissingTransportArg(address, args)
    \/ startswith(address, P_slider)
          /\ (args = <<>> \/ ~IsDigits(last_segment(address)))
    \/ address = A_cc /\ Len(args) < 3
\* what the code prints for a bad argument
BadArgumentReports == {"Error parsing slider"}

\* C11: a datagram under a registered pattern whose arguments are missing
\* (none for /transport/* or /slider/*, fewer than 3 for /midi/cc) or whose
\* slider id is no integer is reported as a bad argument, makes no actuator
\* call and does not end the loop, in both backends.
C11_BadArgumentsReported ==
    /\ (Decoded /\ msg.ok /\ MissingTransportArg(msg.address, msg.args))
          => /\ pending = <<>> /\ sent = <<>>
             /\ Processed => report \cap BadArgumentReports # {}
    /\ \A t \in 1..MaxDatagrams :
          (/\ backend = "midi"
           /\ Single(t)
           /\ BadArguments(threads[t].packet.address, threads[t].packet.args))
          => /\ MidiCalls(t) = 0
             /\ threads[t].pc # "died"
             /\ Finished(t) => threads[t].report \cap BadArgumentReports # {}

\* C12: a /transport/<key> datagram whose <key> is not one of the 11 keys
\* of the transport table, whatever its argument, makes no actuator call
\* and is reported as an unhandled action, in both backends.
UnhandledActionReports == {"Unknown action", "Unhandled OSC"}
UnmappedTransport(address) ==
    /\ startswith(address, P_transport)
    /\ last_segment(address) \notin DOMAIN TRANSPORT_MAP
C12_UnmappedActionUnhandled ==
    /\ (Decoded /\ msg.ok /\ UnmappedTransport(msg.address))
          => /\ pending = <<>> /\ sent = <<>>
             /\ Processed => report \cap UnhandledActionReports # {}
    /\ \A t \in 1..MaxDatagrams :
          (/\ backend = "midi"
           /\ Single(t)
           /\ UnmappedTransport(threads[t].packet.address))
          => /\ MidiCalls(t) = 0
             /\ Finished(t) =>
                   threads[t].report \cap UnhandledActionReports # {}

\* the address is under no pattern the backend routes: osc_transport.py
\* routes /transport/..., osc_to_midi.py maps /midi/cc, /transport/* and
\* /slider/*
RouteMissKeys(address) == ~startswith(address, P_transport)
RouteMissMidi(address) ==
    /\ address # A_cc
    /\ ~startswith(address, P_transport)
    /\ ~startswith(address, P_slider)

\* C13: a decoded datagram whose address is under no registered pattern
\* (/foo/bar), whatever its arguments, is reported as unhandled, makes no
\* actuator call, and the loop goes on to the next datagram.
C13_RouteMiss ==
    /\ (Decoded /\ msg.ok /\ RouteMissKeys(msg.address))
          => /\ pending = <<>> /\ sent = <<>>
             /\ pc \in {"Route", "Done"}
             /\ exit = "none"
             /\ Processed => "Received" \in report
    /\ \A t \in 1..MaxDatagrams :
          (/\ backend = "midi"
           /\ threads[t].pc # "idle"
           /\ Single(t)
           /\ RouteMissMidi(threads[t].packet.address))
          => /\ MidiCalls(t) = 0
             /\ threads[t].pc # "died"
             /\ Finished(t) => "Unhandled OSC" \in threads[t].report
             /\ pc \in {"Serving", "Terminated"}
             /\ exit \in {"none", "interrupt"}
C13_WitnessKeys ==
    /\ Processed
    /\ msg.ok /\ msg.address = A_foo
    /\ report = {"Received"}
    /\ nSent = 0
C13_WitnessMidi ==
    /\ backend = "midi" /\ pc = "Serving"
    /\ \E t \in 1..MaxDatagrams :
          /\ threads[t].pc = "done"
          /\ threads[t].packet.address = A_foo
          /\ threads[t].report = {"Unhandled OSC"}
    /\ nSent = 0
C13_Witness == C13_WitnessKeys \/ C13_WitnessMidi

\* the decimal text of a natural number
RECURSIVE Decimal(_)
Decimal(n) ==
    IF n < 10 THEN <<48 + n>>
    ELSE Decimal(n \div 10) \o <<48 + (n % 10)>>
\* /slider/<n>
SliderAddress(n) == P_slider \o Decimal(n)
\* the argument is a number of [0, 1]
InUnit(v) ==
    IF v.t = "i" THEN v.v \in {0, 1}
    ELSE \/ v.exp = 0 /\ v.man = 0
         \/ v.sign = 0 /\ v.exp < 127
         \/ v.sign = 0 /\ v.exp = 127 /\ v.man = 0
\* x = floor(v * 127) for v of [0, 1]: x <= v * 127 < x + 1, where a float
\* is (2^23 + man) / 2^(150 - exp) and below 1/256 when exp < 119
IsFloor127(v, x) ==
    IF v.t = "i" THEN x = v.v * 127
    ELSE IF v.exp < 119 THEN x = 0
    ELSE LET m127 == (8388608 + v.man) * 127
             d == Pow2(150 - v.exp)
         IN  /\ x \in 0..127
             /\ x * d <= m127
             /\ m127 - x * d < d
\* the calls of midi_out.send thread t has made or is making
CallsOf(t) ==
    threads[t].sent
      \o (IF threads[t].pc = "send" THEN <<threads[t].out>> ELSE <<>>)
\* thread t makes the one call midi_out.send(c): never another call, and
\* this one once it is through
OneCall(t, c) ==
    /\ Len(CallsOf(t)) <= 1
    /\ \A j \in 1..Len(CallsOf(t)) : CallsOf(t)[j] = c
    /\ Finished(t) => threads[t].sent = <<c>>
\* the address is /slider/<n>, n written in decimal
IsSliderAddress(address, n) ==
    /\ n >= 0
    /\ address = SliderAddress(n)
SliderScaling(ids) ==
    \A t \in 1..MaxDatagrams :
        (/\ backend = "midi"
         /\ startswith(threads[t].packet.address, P_slider)
         /\ IsDigits(last_segment(threads[t].packet.address))
         /\ Len(threads[t].packet.args) = 1
         /\ InUnit(threads[t].packet.args[1]))
        => LET n == digits_value(last_segment(threads[t].packet.address), 0)
           IN  (n \in ids /\ IsSliderAddress(threads[t].packet.address, n))
                => /\ Len(CallsOf(t)) <= 1
                   /\ Finished(t) => Len(threads[t].sent) = 1
                   /\ \A j \in 1..Len(CallsOf(t)) :
                         /\ CallsOf(t)[j].channel = 0
                         /\ CallsOf(t)[j].control = n
                         /\ CallsOf(t)[j].value \in 0..127
                         /\ IsFloor127(threads[t].packet.args[1],
                                       CallsOf(t)[j].value)

\* C14 as claimed: for every integer id n and one argument v of [0, 1],
\* /slider/<n> makes exactly one control-change send on channel 0 with
\* controller n and value floor(v * 127), a value of 0..127.
C14_SliderScalingAnyId == SliderScaling(0..200)

\* C14, amended: the same for every id n of 0..127, the controller numbers
\* a control change has; 0.5 on /slider/10 gives controller 10 and value
\* 63, 1.0 gives 127 and 0 gives 0.
C14_SliderScaling == SliderScaling(0..127)
C14_Witness ==
    /\ backend = "midi"
    /\ \E t \in 1..MaxDatagrams :
          /\ threads[t].pc = "done"
          /\ threads[t].packet = Packet(A_slider10, <<F_half>>)
          /\ threads[t].sent = <<ControlChange(0, 10, 63)>>
    /\ \E t \in 1..MaxDatagrams :
          /\ threads[t].pc = "done"
          /\ threads[t].packet = Packet(A_slider10, <<F_third>>)
          /\ threads[t].sent = <<ControlChange(0, 10, 38)>>

\* the first three arguments are integers
ThreeInts(args) ==
    Len(args) >= 3 /\ \A j \in 1..3 : args[j].t = "i"
\* channel 1..16, controller and value 0..127: what a control change holds
InMidiRange(args) ==
    /\ args[1].v \in 1..16
    /\ args[2].v \in 0..127
    /\ args[3].v \in 0..127
RawControlChange(ranged) ==
    \A t \in 1..MaxDatagrams :
        (/\ backend = "midi"
         /\ threads[t].packet.address = A_cc
         /\ ThreeInts(threads[t].packet.args)
         /\ ranged => InMidiRange(threads[t].packet.args))
        => OneCall(t, ControlChange(threads[t].packet.args[1].v - 1,
                                    threads[t].packet.args[2].v,
                                    threads[t].packet.args[3].v))

\* C15 as claimed: for every /midi/cc datagram with three integers (channel
\* c 1-indexed, controller k, value x) handle_cc makes exactly one
\* control-change send with channel c - 1, controller k and value x;
\* further arguments are ignored.
C15_RawControlChangeAnyInts == RawControlChange(FALSE)

\* C15, amended: the same for c of 1..16 and k, x of 0..127.
C15_RawControlChange == RawControlChange(TRUE)
C15_Witness ==
    /\ backend = "midi"
    /\ \E t \in 1..MaxDatagrams :
          /\ threads[t].pc = "done"
          /\ threads[t].packet.args =
                 <<IntArg(1), IntArg(64), IntArg(100), IntArg(5)>>
          /\ threads[t].sent = <<ControlChange(0, 64, 100)>>
    /\ \E t \in 1..MaxDatagrams :
          /\ threads[t].pc = "done"
          /\ threads[t].packet.args = <<IntArg(16), IntArg(127), IntArg(0)>>
          /\ threads[t].sent = <<ControlChange(15, 127, 0)>>

\* the 4-byte-aligned offsets of the buffer at which a NUL follows
AlignedStringStarts(buf) ==
    {o \in 0..Len(buf) :
        o % 4 = 0 /\ \E i \in (o + 1)..Len(buf) : buf[i] = 0}
\* the length of the NUL-terminated string at offset o
StringLength(buf, o) ==
    CHOOSE L \in 0..Len(buf) :
        /\ o + L + 1 <= Len(buf)
        /\ buf[o + L + 1] = 0
        /\ \A j \in 1..L : buf[o + j] # 0

\* C16: for a NUL-terminated string of length L read by parse_osc_string
\* from a 4-byte-aligned offset, the bytes consumed, L + 1 + padding, are a
\* positive multiple of 4 with padding in 0..3, and the returned offset is
\* 4-byte aligned again.
C16_PaddingLaw ==
    (backend = "keys" /\ pc \in {"Decode", "Route", "Send", "Done"})
        => \A o \in AlignedStringStarts(data) :
              LET r == parse_osc_string(data, o)
                  L == StringLength(data, o)
              IN  (~r.none /\ ~r.raised)
                    => /\ r.offset - o > 0
                       /\ (r.offset - o) % 4 = 0
                       /\ (r.offset - o) - (L + 1) \in 0..3
                       /\ r.offset % 4 = 0
C16_Witness ==
    /\ Processed
    /\ Whole(input)
    /\ input.abytes = utf8_encode(A_xy)
    /\ input.tag = <<COMMA, CH_i>>
    /\ msg.ok /\ Len(msg.args) = 1
    /\ parse_osc_string(data, 0).offset = 4
    /\ parse_osc_string(data, 4).offset = 8

\* C17: once the loop has received a datagram, its decode, route, map and
\* actuate steps all complete before an interrupt is observed: the loop is
\* interrupted only while it listens or when it is through with the
\* datagram in hand, never with a datagram decoded and routed but its
\* actuator call not made.
C17_NoCancellationMidMessage ==
    [][(backend = "keys" /\ exit = "none" /\ exit' = "interrupt")
          => pc \in {"Listening", "Done"}]_vars

\* the send_keystroke calls made or about to be made for the datagram in
\* hand
KeystrokeCalls == {pending[j] : j \in 1..Len(pending)}
                    \cup {sent[j] : j \in 1..Len(sent)}
\* the 11 (key, with_command) pairs of the table
TableEntries == {TRANSPORT_MAP[k] : k \in DOMAIN TRANSPORT_MAP}

\* C18: every send_keystroke call of osc_transport.py passes one of the 11
\* (key, with_command) pairs of TRANSPORT_MAP, the one under the last
\* segment of a datagram address that starts with /transport/; nothing of
\* the datagram's bytes becomes the key or the modifier.
C18_OnlyTableEntries ==
    backend = "keys" =>
        \A c \in KeystrokeCalls :
            /\ c \in TableEntries
            /\ Cardinality(TableEntries) <= 11
            /\ msg.ok
            /\ startswith(msg.address, P_transport)
            /\ msg.address = utf8_decode(input.abytes).s
            /\ last_segment(msg.address) \in DOMAIN TRANSPORT_MAP
            /\ c = TRANSPORT_MAP[last_segment(msg.address)]
C18_Witness ==
    /\ Processed
    /\ input.abytes = utf8_encode(A_undo)
    /\ sent = <<Keystroke("z", TRUE)>>

\* C19: processing one received datagram makes at most one actuator call
\* (one send_keystroke or one midi_out.send), in both backends, so the
\* calls made never outnumber the datagrams received.
C19_AtMostOneCallPerDatagram ==
    /\ backend = "keys" => Len(pending) + Len(sent) <= 1
    /\ \A t \in 1..MaxDatagrams : MidiCalls(t) <= 1
    /\ nSent <= nRecv

====
